---- MODULE Spec2Model ----
(***************************************************************************)
(* Model of sdao's Firebird dialect: the named->positional placeholder     *)
(* translator and the cursor bookkeeping of Cnn (sdao/firebird/cnn.py),    *)
(* and the statement/predicate builder SqlBuilder                          *)
(* (sdao/firebird/sqlbuilder.py).                                          *)
(*                                                                         *)
(* Python strings are sequences of one-character strings, so that          *)
(* scanning, slicing and concatenation are computed as the code computes   *)
(* them.  A dict is a function whose DOMAIN is its key set; a dict of      *)
(* which only the keys are read is the sequence of its keys in insertion   *)
(* order.  A call's result is a record: kind "return" or "raise".          *)
(***************************************************************************)
EXTENDS Integers, Sequences, FiniteSets, TLC

VARIABLES
    sql,        \* translator: the template handed to _convert_pyformat_to_qmark
    params,     \* translator: the value source (a dict)
    ret,        \* translator: result of the call, or NotCalled
    conds,      \* whereCondition: the list of condition dicts
    wret,       \* whereCondition: result of the call, or NotCalled
    data,       \* SqlBuilder.insert/update: the payload
    out,        \* SqlBuilder.insert/update: result of the call, or NotCalled
    autocommit, \* Cnn.autocommit
    cursor,     \* Cnn._cursor: None or a driver cursor
    opened,     \* driver cursors obtained from cnn.cursor() and not closed
    nextCursor, \* number of cursors the driver has handed out so far
    last        \* the last Cnn call: operation, outcome, driver calls it made

vars == <<sql, params, ret, conds, wret, data, out,
          autocommit, cursor, opened, nextCursor, last>>

----------------------------------------------------------------------------
(* Bounds of the model *)

\* a template is at most this many pieces long
MaxPieces == 3
\* conditions per whereCondition call
MaxConds == 2
\* elements of a list-valued condition
MaxList == 2
\* rows of a batch payload
MaxRows == 2
\* keys of a row handed to insert / update
MaxColumns == 2
\* cursors the driver hands out in one run
MaxCursors == 3

----------------------------------------------------------------------------
(* Python values *)

None == [tag |-> "None"]
NotCalled == [kind |-> "notcalled"]

Dict(d) == [tag |-> "dict", v |-> d]
List(l) == [tag |-> "list", v |-> l]

Return(text, values) == [kind |-> "return", sql |-> text, values |-> values]
Raise(exc) == [kind |-> "raise", exc |-> exc]

\* "".join(parts)
RECURSIVE Join(_)
Join(parts) ==
    IF parts = <<>> THEN <<>> ELSE Head(parts) \o Join(Tail(parts))

\* sep.join(parts)
RECURSIVE JoinSep(_, _)
JoinSep(sep, parts) ==
    IF parts = <<>> THEN <<>>
    ELSE IF Len(parts) = 1 THEN Head(parts)
    ELSE Head(parts) \o sep \o JoinSep(sep, Tail(parts))

\* sub in s   (substring test)
Contains(s, sub) ==
    \E i \in 1..(Len(s) - Len(sub) + 1) : SubSeq(s, i, i + Len(sub) - 1) = sub

\* s[a:b] with 0-based half-open Python indices
Slice(s, a, b) == SubSeq(s, a + 1, b)

----------------------------------------------------------------------------
(* Cnn._pyformat_pattern = re.compile(r"%\(([^)]+)\)s") *)

\* Index (1-based) of the first ")" at or after position p, or 0.
RECURSIVE FirstClose(_, _)
FirstClose(s, p) ==
    IF p > Len(s) THEN 0
    ELSE IF s[p] = ")" THEN p
    ELSE FirstClose(s, p + 1)

\* The pattern matched at 0-based offset p: "%", "(", a greedy non-empty run
\* of characters other than ")", then ")" and "s".  The run stops at the
\* first ")", and no shorter run can be followed by ")", so the match is
\* unique.  Result: the match (span as Python's match.span(), group 1) or None.
MatchAt(s, p) ==
    LET q == FirstClose(s, p + 3)   \* 1-based index of the closing ")"
    IN IF /\ p + 2 <= Len(s)
          /\ s[p + 1] = "%"
          /\ s[p + 2] = "("
          /\ q >= p + 4
          /\ q + 1 <= Len(s)
          /\ s[q + 1] = "s"
       THEN [tag |-> "match", start |-> p, end |-> q + 1,
             name |-> SubSeq(s, p + 3, q - 1)]
       ELSE None

\* pattern.finditer(s): non-overlapping matches, leftmost first.
RECURSIVE FindIterFrom(_, _)
FindIterFrom(s, p) ==
    IF p >= Len(s) THEN <<>>
    ELSE LET m == MatchAt(s, p)
         IN IF m.tag = "match"
            THEN <<m>> \o FindIterFrom(s, m.end)
            ELSE FindIterFrom(s, p + 1)

FindIter(s) == FindIterFrom(s, 0)

----------------------------------------------------------------------------
(* Cnn._convert_pyformat_to_qmark *)

\* One iteration of the for loop over the matches.  st is the loop state
\* (new_sql_parts, values, last_pos, raised).
LoopStep_KeepsLastPos(text, prm, st, m) ==
    IF m.name \notin DOMAIN prm
    THEN [st EXCEPT !.raised = TRUE]
    ELSE [new_sql_parts |-> st.new_sql_parts
                            \o <<Slice(text, st.last_pos, m.start), <<"?">>>>,
          values |-> Append(st.values, prm[m.name]),
          last_pos |-> st.last_pos,
          raised |-> FALSE]

LoopStep_DropsValue(text, prm, st, m) ==
    IF m.name \notin DOMAIN prm
    THEN [st EXCEPT !.raised = TRUE]
    ELSE [new_sql_parts |-> st.new_sql_parts
                            \o <<Slice(text, st.last_pos, m.start), <<"?">>>>,
          values |-> IF st.values = <<>> THEN <<prm[m.name]>> ELSE st.values,
          last_pos |-> m.end,
          raised |-> FALSE]

LoopStep(text, prm, st, m) ==
    IF m.name \notin DOMAIN prm
    THEN [st EXCEPT !.raised = TRUE]
    ELSE [new_sql_parts |-> st.new_sql_parts
                            \o <<Slice(text, st.last_pos, m.start), <<"?">>>>,
          values |-> Append(st.values, prm[m.name]),
          last_pos |-> m.end,
          raised |-> FALSE]

\* The for loop: stops at the first match whose name is missing.
RECURSIVE Loop(_, _, _, _)
Loop(text, prm, st, ms) ==
    IF ms = <<>> \/ st.raised THEN st
    ELSE Loop(text, prm, LoopStep(text, prm, st, Head(ms)), Tail(ms))

ConvertPyformatToQmark(text, prm) ==
    IF DOMAIN prm = {} THEN Return(text, None)
    ELSE IF ~Contains(text, <<"%", "(">>) THEN Return(text, Dict(prm))
    ELSE LET st == Loop(text, prm,
                        [new_sql_parts |-> <<>>, values |-> <<>>,
                         last_pos |-> 0, raised |-> FALSE],
                        FindIter(text))
         IN IF st.raised THEN Raise("KeyError")
            ELSE Return(Join(Append(st.new_sql_parts,
                                    Slice(text, st.last_pos, Len(text)))),
                        List(st.values))

----------------------------------------------------------------------------
(* Inputs of the translator *)

PlaceholderA == <<"%", "(", "a", ")", "s">>
PlaceholderB == <<"%", "(", "b", ")", "s">>

\* Pieces a template is assembled from: complete placeholders, the opening
\* and closing halves of one, a literal question mark and plain text.
Pieces ==
    { PlaceholderA, PlaceholderB, <<"%", "(">>, <<")", "s">>, <<"?">>, <<"x">> }

RECURSIVE TemplatesOf(_)
TemplatesOf(n) ==
    IF n = 0 THEN { <<>> }
    ELSE LET shorter == TemplatesOf(n - 1)
         IN shorter \cup { t \o p : t \in shorter, p \in Pieces }

Templates == TemplatesOf(MaxPieces)

Keys == { <<"a">>, <<"b">> }
Scalars == { 5, 7 }

\* Every dict with keys among Keys and values among Scalars, {} included.
Dicts == UNION { [K -> Scalars] : K \in SUBSET Keys }

----------------------------------------------------------------------------
(* Values the variables of the other components keep while one component   *)
(* is exercised.                                                           *)

IdleTranslate == sql = <<>> /\ params = <<>> /\ ret = NotCalled
IdleWhere == conds = <<>> /\ wret = NotCalled
IdleBuilder == data = None /\ out = NotCalled
IdleCnn ==
    /\ autocommit = TRUE
    /\ cursor = None
    /\ opened = {}
    /\ nextCursor = 0
    /\ last = NotCalled

----------------------------------------------------------------------------
(* Specification of the translator: one call on any template and dict *)

InitTranslate ==
    /\ sql \in Templates
    /\ params \in Dicts
    /\ ret = NotCalled
    /\ IdleWhere /\ IdleBuilder /\ IdleCnn

Convert ==
    /\ ret = NotCalled
    /\ ret' = ConvertPyformatToQmark(sql, params)
    /\ UNCHANGED <<sql, params, conds, wret, data, out,
                   autocommit, cursor, opened, nextCursor, last>>

NextTranslate == Convert

SpecTranslate == InitTranslate /\ [][NextTranslate]_vars

----------------------------------------------------------------------------
(* Properties of the translator *)

Called == ret.kind # "notcalled"

\* The named placeholders of the template, left to right.
Occurrences == FindIter(sql)

\* The value source supplies every name the template references.
Complete ==
    \A i \in 1..Len(Occurrences) : Occurrences[i].name \in DOMAIN params

\* Position j (1-based) of the template lies inside a named placeholder.
InPlaceholder(j) ==
    \E i \in 1..Len(Occurrences) :
        Occurrences[i].start < j /\ j <= Occurrences[i].end

StartsPlaceholder(j) ==
    \E i \in 1..Len(Occurrences) : Occurrences[i].start + 1 = j

CountMarkers(text) == Cardinality({ j \in 1..Len(text) : text[j] = "?" })

\* Question marks the template has outside its named placeholders.
LiteralMarkers ==
    Cardinality({ j \in 1..Len(sql) : sql[j] = "?" /\ ~InPlaceholder(j) })

\* len() of the returned values: a dict or a list.
Size(v) == IF v.tag = "dict" THEN Cardinality(DOMAIN v.v) ELSE Len(v.v)

\* The template with each placeholder replaced by one marker, position by
\* position: everything outside the placeholders unchanged and in place.
Rewritten ==
    Join([ j \in 1..Len(sql) |->
             IF StartsPlaceholder(j) THEN <<"?">>
             ELSE IF InPlaceholder(j) THEN <<>>
             ELSE <<sql[j]>> ])

\* C1: whenever the template has a named placeholder whose name is not a key
\* of params, the empty dict {} included, the call raises KeyError.
C1_MissingParameterRaises ==
    (Called /\ ~Complete) => ret = Raise("KeyError")

C3_OrderFidelity ==
    (Called /\ Complete /\ DOMAIN params # {})
        => /\ ret.kind = "return"
           /\ ret.sql = Rewritten
           /\ Len(Occurrences) >= 1
                => /\ ret.values.tag = "list"
                   /\ Len(ret.values.v) = Len(Occurrences)
                   /\ \A i \in 1..Len(Occurrences) :
                        ret.values.v[i] = params[Occurrences[i].name]

C3_Witness ==
    /\ Called /\ Complete
    /\ Len(Occurrences) = 2
    /\ Occurrences[1].name = Occurrences[2].name
    /\ Occurrences[1].end < Occurrences[2].start
    /\ ret.kind = "return"
    /\ ret.values = List(<<5, 5>>)

----------------------------------------------------------------------------
(* SqlBuilder (sdao/firebird/sqlbuilder.py) *)

Str(s) == [tag |-> "str", v |-> s]
Scalar(x) == [tag |-> "scalar", v |-> x]
\* A dict of which the builder reads only the keys, in insertion order.
Row(keys) == [tag |-> "dict", keys |-> keys]

Digits == <<"0", "1", "2", "3", "4", "5", "6", "7", "8", "9">>

\* str(n) of a non-negative int, as inside an f-string
RECURSIVE IntToStr(_)
IntToStr(n) ==
    IF n < 10 THEN <<Digits[n + 1]>>
    ELSE IntToStr(n \div 10) \o <<Digits[(n % 10) + 1]>>

\* self.table
Table == <<"t">>

\* f'"{k}"'
Quoted(k) == <<"\"">> \o k \o <<"\"">>

\* f"%({key})s"
Pyformat(key) == <<"%", "(">> \o key \o <<")", "s">>

InsertStatement(keys) ==
    LET values == [i \in 1..Len(keys) |-> Pyformat(keys[i])]
        columns == JoinSep(<<",">>, [i \in 1..Len(keys) |-> Quoted(keys[i])])
    IN <<"I", "N", "S", "E", "R", "T", " ", "I", "N", "T", "O", " ">>
       \o Quoted(Table) \o <<" ", "(">> \o columns
       \o <<")", " ", "V", "A", "L", "U", "E", "S", "(">>
       \o JoinSep(<<",">>, values) \o <<")">>

\* SqlBuilder.insert(data)
BuilderInsert(d) ==
    IF d.tag = "dict" THEN [kind |-> "return", sql |-> InsertStatement(d.keys)]
    ELSE IF d.tag = "list" /\ Len(d.v) > 0
         THEN [kind |-> "return", sql |-> InsertStatement(d.v[1].keys)]
    ELSE Raise("ValueError")

\* SqlBuilder.update(data)
BuilderUpdate(d) ==
    IF d.tag # "dict" \/ Len(d.keys) = 0 THEN Raise("ValueError")
    ELSE LET pairs == [i \in 1..Len(d.keys) |->
                         Quoted(d.keys[i]) \o <<" ", "=", " ">>
                         \o Pyformat(d.keys[i])]
         IN [kind |-> "return",
             sql |-> <<"U", "P", "D", "A", "T", "E", " ">> \o Quoted(Table)
                     \o <<" ", "S", "E", "T", " ">> \o JoinSep(<<",">>, pairs)]

----------------------------------------------------------------------------
(* SqlBuilder.whereCondition *)

ParamPrefix == <<"p", "a", "r", "a", "m", "_">>
NotIn == <<"N", "O", "T", " ", "I", "N">>

\* f"{paramAlias}_{k}"
Indexed(paramAlias, k) == paramAlias \o <<"_">> \o IntToStr(k)

InSeq(x, seq) == \E i \in 1..Len(seq) : seq[i] = x

NextIndex_Restart(paramAlias, usedParamNames, next_index) == 0

\* while f"{paramAlias}_{next_index}" in usedParamNames: next_index += 1
RECURSIVE NextIndex(_, _, _)
NextIndex(paramAlias, usedParamNames, next_index) ==
    IF InSeq(Indexed(paramAlias, next_index), usedParamNames)
    THEN NextIndex(paramAlias, usedParamNames, next_index + 1)
    ELSE next_index

\* The else branch: value = f" %({paramAlias})s" if value is not None else ""
ScalarValue_BindsNull(paramAlias, value) ==
    <<" ">> \o Pyformat(paramAlias)

ScalarValue(paramAlias, value) ==
    IF value.tag # "None" THEN <<" ">> \o Pyformat(paramAlias) ELSE <<>>

\* One iteration of the loop over the conditions.  st is (result,
\* usedParamNames); the locals of the iteration are computed in b.
WhereStep(st, condition) ==
    LET paramName0 == Quoted(condition.paramName)
        paramAlias0 == ParamPrefix \o condition.paramName
        isList == condition.value.tag = "list"
        n == IF isList THEN Len(condition.value.v) ELSE 0
        next_index == IF isList
                      THEN NextIndex(paramAlias0, st.usedParamNames, 0)
                      ELSE 0
        inParamNames == [i \in 1..n |-> Indexed(paramAlias0, (i - 1) + next_index)]
        joinedValues == [i \in 1..n |-> Pyformat(inParamNames[i])]
        b == IF isList
             THEN IF n < 1
                  THEN [value |-> <<"1">>, paramName |-> <<>>,
                        logicalOperator |-> Str(<<>>),
                        comparisonOperator |-> <<>>]
                  ELSE [value |-> <<"(">> \o JoinSep(<<",">>, joinedValues)
                                  \o <<")">>,
                        paramName |-> paramName0,
                        logicalOperator |-> condition.logicalOperator,
                        comparisonOperator |->
                            IF condition.comparisonOperator # NotIn
                            THEN <<"I", "N">>
                            ELSE condition.comparisonOperator]
             ELSE [value |-> ScalarValue(paramAlias0, condition.value),
                   paramName |-> paramName0,
                   logicalOperator |-> condition.logicalOperator,
                   comparisonOperator |-> condition.comparisonOperator]
        result1 == IF b.logicalOperator.tag # "None"
                   THEN st.result \o <<" ">> \o b.logicalOperator.v
                   ELSE st.result
    IN [result |-> result1 \o <<" ">> \o b.paramName \o <<" ">>
                   \o b.comparisonOperator \o b.value,
        usedParamNames |-> st.usedParamNames \o inParamNames]

RECURSIVE WhereLoop(_, _)
WhereLoop(st, cs) ==
    IF cs = <<>> THEN st ELSE WhereLoop(WhereStep(st, Head(cs)), Tail(cs))

WhereStart == [result |-> <<"W", "H", "E", "R", "E">>, usedParamNames |-> <<>>]

\* SqlBuilder.whereCondition(params)
WhereCondition(cs) ==
    [kind |-> "return", sql |-> WhereLoop(WhereStart, cs).result]

----------------------------------------------------------------------------
(* Specification of SqlBuilder.insert / update: one call on any payload *)

ColumnNames == { <<"i", "d">>, <<"n">>, <<"v">> }

\* Dicts over ColumnNames, by their keys in insertion order; {} included.
Rows ==
    { Row(ks) : ks \in { q \in UNION { [1..n -> ColumnNames] : n \in 0..MaxColumns } :
                           \A i, j \in 1..Len(q) : i # j => q[i] # q[j] } }

\* A dict, a list of dicts ([] included), or something that is neither.
Payloads ==
    Rows
    \cup { List(l) : l \in UNION { [1..n -> Rows] : n \in 0..MaxRows } }
    \cup { None }

InitBuilder ==
    /\ data \in Payloads
    /\ out = NotCalled
    /\ IdleTranslate /\ IdleWhere /\ IdleCnn

Insert ==
    /\ out = NotCalled
    /\ out' = [op |-> "insert", res |-> BuilderInsert(data)]
    /\ UNCHANGED <<sql, params, ret, conds, wret, data,
                   autocommit, cursor, opened, nextCursor, last>>

Update ==
    /\ out = NotCalled
    /\ out' = [op |-> "update", res |-> BuilderUpdate(data)]
    /\ UNCHANGED <<sql, params, ret, conds, wret, data,
                   autocommit, cursor, opened, nextCursor, last>>

NextBuilder == Insert \/ Update

SpecBuilder == InitBuilder /\ [][NextBuilder]_vars

\* The payload carries no column: an empty dict, an empty list, a list whose
\* first row is an empty dict, or neither a dict nor a list.
EmptyColumnSet ==
    \/ data.tag = "dict" /\ data.keys = <<>>
    \/ data.tag = "list" /\ data.v = <<>>
    \/ data.tag = "list" /\ data.v # <<>> /\ data.v[1].keys = <<>>
    \/ data.tag \notin {"dict", "list"}

\* C6: insert and update raise ValueError whenever the column set is empty
\* or missing; neither returns a statement with zero columns.
C6_EmptyShapeRaises ==
    (out # NotCalled /\ EmptyColumnSet) => out.res = Raise("ValueError")

----------------------------------------------------------------------------
(* Specification of SqlBuilder.whereCondition: one call on any condition    *)
(* list in which only the first condition has no connective.               *)

ParamNames == { <<"i", "d">>, <<"x">> }
Comparisons == { <<"=">>, NotIn }
And == <<"A", "N", "D">>
Or == <<"O", "R">>

\* None, a scalar, or a list of at most MaxList scalars ([] included)
ConditionValues ==
    { None, Scalar(5) } \cup { List([i \in 1..n |-> i]) : n \in 0..MaxList }

ConditionsWith(logicalOperators) ==
    [paramName : ParamNames, logicalOperator : logicalOperators,
     comparisonOperator : Comparisons, value : ConditionValues]

ConditionLists ==
    { cs \in UNION { [1..n -> ConditionsWith({None, Str(And), Str(Or)})] :
                       n \in 0..MaxConds } :
        \A i \in 1..Len(cs) : (cs[i].logicalOperator = None) <=> (i = 1) }

InitWhere ==
    /\ conds \in ConditionLists
    /\ wret = NotCalled
    /\ IdleTranslate /\ IdleBuilder /\ IdleCnn

Where ==
    /\ wret = NotCalled
    /\ wret' = WhereCondition(conds)
    /\ UNCHANGED <<sql, params, ret, conds, data, out,
                   autocommit, cursor, opened, nextCursor, last>>

NextWhere == Where

SpecWhere == InitWhere /\ [][NextWhere]_vars

----------------------------------------------------------------------------
(* Properties of whereCondition *)

WhereCalled == wret.kind = "return"

\* The text of the clause after the first j conditions: what the loop has
\* built when its j-th iteration ends.
ResultAfter(j) == WhereLoop(WhereStart, SubSeq(conds, 1, j)).result

\* The fragment of the returned clause that the j-th condition contributed.
Fragment(j) ==
    SubSeq(wret.sql, Len(ResultAfter(j - 1)) + 1, Len(ResultAfter(j)))

\* text.split(): the maximal runs of non-space characters, in order.
RECURSIVE Tokens(_)
Tokens(text) ==
    IF text = <<>> THEN <<>>
    ELSE IF Head(text) = " " THEN Tokens(Tail(text))
    ELSE LET rest == Tokens(Tail(text))
         IN IF Len(text) > 1 /\ text[2] # " "
            THEN <<<<Head(text)>> \o Head(rest)>> \o Tail(rest)
            ELSE <<<<Head(text)>>>> \o rest

\* The connective token of the j-th condition, if it has one.
Connective(j) ==
    IF conds[j].logicalOperator.tag = "None" THEN <<>>
    ELSE <<conds[j].logicalOperator.v>>

IsList(j) == conds[j].value.tag = "list"

\* Named placeholders of the returned clause, left to right.
Emitted == FindIter(wret.sql)

\* Number of placeholders the j-th condition stands for.
Slots(j) ==
    IF IsList(j) THEN Len(conds[j].value.v)
    ELSE IF conds[j].value.tag = "None" THEN 0 ELSE 1

RECURSIVE SlotsBefore(_)
SlotsBefore(j) == IF j <= 1 THEN 0 ELSE SlotsBefore(j - 1) + Slots(j - 1)

\* Elements of the list-valued conditions before the j-th that carry the
\* same paramName.
RECURSIVE EarlierElements(_, _)
EarlierElements(j, i) ==
    IF i >= j THEN 0
    ELSE EarlierElements(j, i + 1)
         + (IF IsList(i) /\ conds[i].paramName = conds[j].paramName
            THEN Len(conds[i].value.v) ELSE 0)

\* (condition, element) pairs of the list-valued conditions
ListSlots ==
    { <<j, k>> \in (1..Len(conds)) \X (1..(MaxList + 1)) :
        IsList(j) /\ k <= Len(conds[j].value.v) }

\* C5: within one call the aliases synthesized for list elements are
\* pairwise distinct, and the indices of a later list condition with the
\* same paramName continue after those of the earlier ones.
C5_AliasesDistinct ==
    WhereCalled =>
        LET emitted == Emitted
            at(a) == emitted[SlotsBefore(a[1]) + a[2]].name
        IN /\ Len(emitted) = SlotsBefore(Len(conds) + 1)
           /\ \A a, b \in ListSlots : a # b => at(a) # at(b)
           /\ \A a \in ListSlots :
                at(a) = ParamPrefix \o conds[a[1]].paramName \o <<"_">>
                        \o IntToStr(EarlierElements(a[1], 1) + a[2] - 1)

C5_Witness ==
    /\ WhereCalled
    /\ Len(conds) = 2
    /\ IsList(1) /\ IsList(2)
    /\ conds[1].paramName = <<"i", "d">> /\ conds[2].paramName = <<"i", "d">>
    /\ Len(conds[1].value.v) = 2 /\ Len(conds[2].value.v) = 2
    /\ Emitted[3].name = ParamPrefix \o <<"i", "d", "_", "2">>
    /\ Emitted[4].name = ParamPrefix \o <<"i", "d", "_", "3">>

IsNull(j) == conds[j].value.tag = "None"

\* C7 as stated: a condition whose value is null contributes, after the
\* optional connective, only the quoted column name: no placeholder and no
\* comparison-operator token.
C7_NullOnlyColumn ==
    WhereCalled =>
        \A j \in 1..Len(conds) :
            IsNull(j) =>
                Tokens(Fragment(j)) =
                    Connective(j) \o <<Quoted(conds[j].paramName)>>

\* C7 amended: a condition whose value is null contributes, after the
\* optional connective, the quoted column name followed by the condition's
\* comparisonOperator, and no named placeholder.
C7_NullNoPlaceholder ==
    WhereCalled =>
        \A j \in 1..Len(conds) :
            IsNull(j) =>
                /\ Tokens(Fragment(j)) =
                       Connective(j) \o <<Quoted(conds[j].paramName)>>
                       \o Tokens(conds[j].comparisonOperator)
                /\ ~Contains(Fragment(j), <<"%", "(">>)
                /\ Slots(j) = 0
                /\ Len(Emitted) = SlotsBefore(Len(conds) + 1)

C7_Witness ==
    /\ WhereCalled
    /\ Len(conds) = 2
    /\ IsNull(2) /\ ~IsNull(1) /\ Slots(1) = 2
    /\ conds[2].comparisonOperator = NotIn
    /\ Tokens(Fragment(2)) =
           <<And, Quoted(<<"x">>), <<"N", "O", "T">>, <<"I", "N">>>>

\* C10: every condition whose logicalOperator is not NONE has its
\* connective emitted immediately before its fragment, also when its value
\* is an empty list, which then contributes the connective and "1" only.
C10_ConnectiveKept ==
    WhereCalled =>
        \A j \in 1..Len(conds) :
            conds[j].logicalOperator.tag # "None" =>
                /\ Tokens(Fragment(j)) # <<>>
                /\ Head(Tokens(Fragment(j))) = conds[j].logicalOperator.v
                /\ (IsList(j) /\ conds[j].value.v = <<>>)
                       => Tokens(Fragment(j)) = Connective(j) \o <<<<"1">>>>

----------------------------------------------------------------------------
(* Cnn: cursor and transaction bookkeeping (sdao/firebird/cnn.py).         *)
(* The driver is nondeterministic: execute, commit, rollback and close     *)
(* each succeed or raise.  A step result is the record (raised, exc,       *)
(* cursor, opened, calls): whether the step raised, Cnn._cursor and the    *)
(* driver's open cursors after it, and the driver calls it made.           *)

Cursor(id) == [tag |-> "cursor", id |-> id]

Step(raised, exc, cur, opn, calls) ==
    [raised |-> raised, exc |-> exc, cursor |-> cur, opened |-> opn,
     calls |-> calls]

\* cursor.close(): the cursor leaves the open set unless close() raises.
Close(cur, opn, closeOk) == IF closeOk THEN opn \ {cur.id} ELSE opn

Finish_KeepsCursor(verb, cur, opn, driverOk, closeOk) ==
    IF ~driverOk THEN Step(TRUE, "DriverError", cur, opn, <<verb>>)
    ELSE Step(FALSE, "", cur, opn, <<verb>>)

\* Cnn.commit() / Cnn.rollback(): verb is the driver call, cnn.commit() or
\* cnn.rollback(); an error of close() is swallowed.
Finish(verb, cur, opn, driverOk, closeOk) ==
    IF ~driverOk THEN Step(TRUE, "DriverError", cur, opn, <<verb>>)
    ELSE IF cur.tag # "None"
         THEN Step(FALSE, "", None, Close(cur, opn, closeOk), <<verb, "close">>)
    ELSE Step(FALSE, "", cur, opn, <<verb>>)

\* if self.autocommit: self.commit()  -- after the steps in st
ThenAutocommit(st, commitOk, closeOk) ==
    IF st.raised \/ ~autocommit THEN st
    ELSE LET f == Finish("commit", st.cursor, st.opened, commitOk, closeOk)
         IN Step(f.raised, f.exc, f.cursor, f.opened, st.calls \o f.calls)

\* self._cursor = self.cnn.cursor(); translate; execute.  The previous
\* value of _cursor is overwritten, the cursor it named is not closed.
TranslateAndExecute(text, prm, execOk) ==
    LET c == Cursor(nextCursor + 1)
        opn == opened \cup {c.id}
        conv == ConvertPyformatToQmark(text, prm)
    IN IF conv.kind = "raise" THEN Step(TRUE, conv.exc, c, opn, <<"cursor">>)
       ELSE IF ~execOk
            THEN Step(TRUE, "DriverError", c, opn, <<"cursor", "execute">>)
       ELSE Step(FALSE, "", c, opn, <<"cursor", "execute">>)

\* Cnn._execute_dml(sql, params)
ExecuteDml(text, prm, execOk, commitOk, closeOk) ==
    ThenAutocommit(TranslateAndExecute(text, prm, execOk), commitOk, closeOk)

\* Cnn.create(sql, data): data is a dict, a list of dicts or neither.
CreateBody(text, d, execOk, commitOk, closeOk) ==
    LET c == Cursor(nextCursor + 1)
        opn == opened \cup {c.id}
        names_in_order == FindIter(text)
        rowsComplete ==
            \A r \in 1..Len(d.v) : \A i \in 1..Len(names_in_order) :
                names_in_order[i].name \in DOMAIN d.v[r]
        executed ==
            IF d.tag = "list"
            THEN IF names_in_order # <<>> /\ ~rowsComplete
                 THEN Step(TRUE, "KeyError", c, opn, <<"cursor">>)
                 ELSE IF ~execOk
                      THEN Step(TRUE, "DriverError", c, opn,
                                <<"cursor", "executemany">>)
                 ELSE Step(FALSE, "", c, opn, <<"cursor", "executemany">>)
            ELSE IF d.tag = "dict"
                 THEN TranslateAndExecute(text, d.v, execOk)
            ELSE Step(TRUE, "TypeError", c, opn, <<"cursor">>)
    IN ThenAutocommit(executed, commitOk, closeOk)

\* Cnn.read(sql, params): fetches and closes its own cursor; an error of
\* this close() is not caught.
ReadBody(text, prm, execOk, closeOk) ==
    LET st == TranslateAndExecute(text, prm, execOk)
    IN IF st.raised THEN st
       ELSE IF ~closeOk
            THEN Step(TRUE, "DriverError", st.cursor, st.opened,
                      st.calls \o <<"fetchall", "close">>)
       ELSE Step(FALSE, "", None, st.opened \ {st.cursor.id},
                 st.calls \o <<"fetchall", "close">>)

----------------------------------------------------------------------------
(* Specification of Cnn: any sequence of create, read, update, delete,     *)
(* commit and rollback on one connection, autocommit on or off.            *)

CnnTemplates == { PlaceholderA, <<"x">> }
CnnDicts == { <<>>, <<"a">> :> 5, <<"b">> :> 5 }
CnnData ==
    { Dict(d) : d \in CnnDicts }
    \cup { List(<<>>), List(<<(<<"a">> :> 5)>>),
           List(<<(<<"a">> :> 5), (<<"b">> :> 5)>>) }
    \cup { None }

InitCnn ==
    /\ autocommit \in BOOLEAN
    /\ cursor = None
    /\ opened = {}
    /\ nextCursor = 0
    /\ last = NotCalled
    /\ IdleTranslate /\ IdleWhere /\ IdleBuilder

\* The state after a call: st is what the call did.
AfterCall(op, st, newCursors) ==
    /\ cursor' = st.cursor
    /\ opened' = st.opened
    /\ nextCursor' = nextCursor + newCursors
    /\ last' = [kind |-> "call", op |-> op,
                outcome |-> IF st.raised THEN "raise" ELSE "return",
                exc |-> st.exc, calls |-> st.calls]
    /\ UNCHANGED <<sql, params, ret, conds, wret, data, out, autocommit>>

Create ==
    /\ nextCursor < MaxCursors
    /\ \E text \in CnnTemplates, d \in CnnData,
          execOk \in BOOLEAN, commitOk \in BOOLEAN, closeOk \in BOOLEAN :
            AfterCall("create", CreateBody(text, d, execOk, commitOk, closeOk), 1)

Read ==
    /\ nextCursor < MaxCursors
    /\ \E text \in CnnTemplates, prm \in CnnDicts,
          execOk \in BOOLEAN, closeOk \in BOOLEAN :
            AfterCall("read", ReadBody(text, prm, execOk, closeOk), 1)

CnnUpdate ==
    /\ nextCursor < MaxCursors
    /\ \E text \in CnnTemplates, prm \in CnnDicts,
          execOk \in BOOLEAN, commitOk \in BOOLEAN, closeOk \in BOOLEAN :
            AfterCall("update", ExecuteDml(text, prm, execOk, commitOk, closeOk), 1)

Delete ==
    /\ nextCursor < MaxCursors
    /\ \E text \in CnnTemplates, prm \in CnnDicts,
          execOk \in BOOLEAN, commitOk \in BOOLEAN, closeOk \in BOOLEAN :
            AfterCall("delete", ExecuteDml(text, prm, execOk, commitOk, closeOk), 1)

Commit ==
    \E commitOk \in BOOLEAN, closeOk \in BOOLEAN :
        AfterCall("commit", Finish("commit", cursor, opened, commitOk, closeOk), 0)

Rollback ==
    \E rollbackOk \in BOOLEAN, closeOk \in BOOLEAN :
        AfterCall("rollback",
                Finish("rollback", cursor, opened, rollbackOk, closeOk), 0)

NextCnn == Create \/ Read \/ CnnUpdate \/ Delete \/ Commit \/ Rollback

SpecCnn == InitCnn /\ [][NextCnn]_vars

----------------------------------------------------------------------------
(* Properties of Cnn *)

\* C8: after any sequence of calls at most one cursor obtained from the
\* driver connection is open.
C8_AtMostOneOpenCursor == Cardinality(opened) <= 1

\* The last call was create, update or delete.
IsDml == last.kind = "call" /\ last.op \in {"create", "update", "delete"}

Occurs(x, calls) == Cardinality({ i \in 1..Len(calls) : calls[i] = x })

\* Some execute precedes the i-th driver call.
ExecutedBefore(calls, i) ==
    \E e \in 1..(i - 1) : calls[e] \in {"execute", "executemany"}

\* C9, the state when create, update or delete ends: on success with
\* autocommit on, exactly one commit was issued, after the execute, and
\* _cursor is None; if the translation or the execute raised, no commit was
\* issued; with autocommit off no commit was issued and on return the
\* call's own cursor is held and open.
C9_AtReturn ==
    IsDml =>
        /\ (autocommit /\ last.outcome = "return")
              => /\ Occurs("commit", last.calls) = 1
                 /\ \A i \in 1..Len(last.calls) :
                      last.calls[i] = "commit" => ExecutedBefore(last.calls, i)
                 /\ cursor = None
        /\ (last.outcome = "raise"
            /\ last.calls[Len(last.calls)] \in {"cursor", "execute", "executemany"})
              => Occurs("commit", last.calls) = 0
        /\ last.exc \in {"KeyError", "TypeError"}
              => /\ last.outcome = "raise"
                 /\ Occurs("commit", last.calls) = 0
                 /\ ~ExecutedBefore(last.calls, Len(last.calls) + 1)
        /\ ~autocommit
              => /\ Occurs("commit", last.calls) = 0
                 /\ last.outcome = "return"
                      => cursor = Cursor(nextCursor) /\ nextCursor \in opened

\* A create, update or delete has returned with autocommit off.
HoldsCursor == IsDml /\ ~autocommit /\ last.outcome = "return"

====
